---- MODULE Spec2Model ----
(***************************************************************************)
(* Model of the WebP converter (webp_converter.py) and of the folder       *)
(* checker (folder_checker.py).                                            *)
(*                                                                         *)
(* A file name is a sequence of characters.  The letters of an extension   *)
(* always occur together, so an extension is written as one element        *)
(* ("png"); every other element is one character.  No element is a prefix  *)
(* of another, so two names are equal as sequences exactly when they are   *)
(* equal as strings.  A path is a record [dir, name]: the directory,       *)
(* relative to the root of its tree, as a sequence of directory names, and *)
(* the file name.                                                          *)
(***************************************************************************)
EXTENDS Integers, Sequences, FiniteSets, TLC

VARIABLES
    inFiles,      \* files of the input tree (paths relative to the input root)
    inDirs,       \* directories of the input tree, the root <<>> included
    outFiles,     \* files of the output tree (paths relative to the output root)
    outDirs,      \* existing directories of the output tree; <<>> is the root
    pc,           \* position of convert_directory: "idle", "walk", "done"
    pending,      \* directories os.walk has still to yield
    curDir,       \* the directory whose files are being processed
    todo,         \* files of curDir not processed yet
    stats,        \* the statistics dictionary of convert_directory
    lastAlloc,    \* the last call of _generate_unique_filename, with its result
    initOut,      \* the output files present before convert_directory started
    chkFormat,    \* FolderChecker.output_format ("none" while unset)
    expected,     \* last result of get_expected_output_files
    report,       \* last result of check_conversion_completeness
    predicted,    \* last result of predict_output_filenames
    scanned,      \* last result of scan_folder, with the root it was called on
    detected,     \* last result of detect_output_format ("none" before a call)
    walked,       \* the files of the output root in the order the last
                  \* detect_output_format met them
    printed,      \* the checklist of the last print_report
    call,         \* the keyword arguments of the last convert_directory call
    procs,        \* the converter processes that share one output directory
    content,      \* which process wrote each output file last, and from which source
    lost,         \* the output files that were overwritten
    gui           \* WebPConverterGUI: its widgets and the threads it has started

vars == <<inFiles, inDirs, outFiles, outDirs, pc, pending, curDir, todo, stats,
          lastAlloc, initOut, chkFormat, expected, report, predicted, scanned,
          detected, walked, printed, call, procs, content, lost, gui>>

sideVars == <<call, procs, content, lost, gui>>
convVars == <<pc, pending, curDir, todo, stats, lastAlloc, initOut, sideVars>>
treeVars == <<inFiles, inDirs, outFiles, outDirs>>
chkVars == <<chkFormat, expected, report, predicted, scanned, detected, walked, printed>>

----------------------------------------------------------------------------
(* Bounds of the model *)

\* files in the input tree
MaxFiles == 3
\* files in the output tree when only the checker runs
MaxOut == 2
\* files in the output tree before a conversion
MaxPre == 1
\* files of one conversion that fail or are skipped as too large
MaxTrouble == 1
\* files in each tree when scan_folder is called on its own
MaxScan == 2
\* files in the flat input directory of a call with keyword arguments
MaxFlat == 3
\* files in the input tree of each of two concurrent converters
MaxRace == 2
\* files in the input tree when the format is detected
MaxDetectIn == 3
\* files in the input tree, and in the output tree, when the output tree
\* changes between two checks
MaxPure == 2
\* .webp files in the output tree when the format is detected
MaxWebp == 5
\* .png files, and .jpg files, in the output tree when the format is detected
MaxOther == 2
\* files in the output tree when the order of the walk is followed
MaxTie == 4
\* files in the input tree then
MaxTieIn == 1
\* conversions started from the window
MaxThreads == 2
\* files in the input tree, and in each output tree, of a checker that is
\* used for several checks
MaxStickyIn == 1
MaxStickyOut == 2
\* files in the input tree, and in the output tree, of a check whose report
\* is printed
MaxReportIn == 2
MaxReportOut == 1
\* files in the input tree of a conversion that is run again
MaxRerunIn == 2
\* files in the output tree from which no further run is started
MaxRerunOut == 3

None == "none"

----------------------------------------------------------------------------
(* Strings and pathlib *)

\* str.lower(), element by element
LowerChar(c) ==
    CASE c = "A" -> "a"
      [] c = "PNG" -> "png"
      [] c = "JPG" -> "jpg"
      [] c = "WEBP" -> "webp"
      [] OTHER -> c

Lower(s) == [i \in DOMAIN s |-> LowerChar(s[i])]

\* str.rfind('.'), 1-based; 0 when there is no dot
RFindDot(s) ==
    LET dots == {i \in DOMAIN s : s[i] = "."}
    IN  IF dots = {} THEN 0 ELSE CHOOSE i \in dots : \A j \in dots : j <= i

\* PurePath.suffix: from the last dot, unless the dot starts or ends the name
Suffix(s) ==
    LET i == RFindDot(s)
    IN  IF 1 < i /\ i < Len(s) THEN SubSeq(s, i, Len(s)) ELSE <<>>

\* PurePath.stem
Stem(s) ==
    LET i == RFindDot(s)
    IN  IF 1 < i /\ i < Len(s) THEN SubSeq(s, 1, i - 1) ELSE s

\* PurePath.with_suffix: the old suffix, if any, is replaced
WithSuffix(p, suf) ==
    LET old == Suffix(p.name)
    IN  IF old = <<>>
        THEN [dir |-> p.dir, name |-> p.name \o suf]
        ELSE [dir |-> p.dir,
              name |-> SubSeq(p.name, 1, Len(p.name) - Len(old)) \o suf]

\* str(counter) as one element of a name
Digits(n) == ToString(n)

Path(d, n) == [dir |-> d, name |-> n]

Ext(e) == <<".", e>>

----------------------------------------------------------------------------
(* Program constants *)

\* WebPConverter.supported_formats
ConverterFormats ==
    {Ext("jpg"), Ext("jpeg"), Ext("png"), Ext("bmp"), Ext("tiff"), Ext("tif"),
     Ext("gif"), Ext("ico"), Ext("ppm"), Ext("pgm"), Ext("pbm"), Ext("pnm")}

\* SUPPORTED_FORMATS and FolderChecker.supported_formats
SUPPORTED_FORMATS == ConverterFormats \cup {Ext("webp")}

----------------------------------------------------------------------------
(* The trees the model draws its inputs from *)

Root == <<>>
DirX == <<"x">>
DirXY == <<"x", "y">>

InPool ==
    { Path(Root, <<"a", ".", "png">>),
      Path(Root, <<"a", ".", "PNG">>),
      Path(Root, <<"a", ".", "jpg">>),
      Path(Root, <<"A", ".", "jpg">>),
      Path(Root, <<"a", ".", "b", ".", "png">>),
      Path(Root, <<"a", "_", "png", ".", "jpg">>),
      Path(Root, <<"a", ".", "webp">>),
      Path(Root, <<"n", ".", "txt">>),
      Path(DirX, <<"a", ".", "png">>) }

\* files that may lie in the output directory before a conversion starts
PrePool ==
    { Path(Root, <<"a", ".", "webp">>),
      Path(Root, <<"a", "_", "png", ".", "webp">>),
      Path(Root, <<"a", "_", "png", "_", "1", ".", "webp">>),
      Path(DirX, <<"a", ".", "webp">>) }

\* files that may lie in the output directory when the checker runs
OutPool ==
    { Path(Root, <<"a", ".", "webp">>),
      Path(Root, <<"a", "_", "png", ".", "webp">>),
      Path(Root, <<"a", "_", "jpg", ".", "webp">>),
      Path(Root, <<"A", ".", "webp">>),
      Path(Root, <<"a", ".", "b", ".", "webp">>),
      Path(Root, <<"a", ".", "jpg">>),
      Path(DirX, <<"a", ".", "webp">>),
      Path(DirX, <<"a", "_", "png", ".", "webp">>) }

DirPool == {DirX, DirXY}

\* the files of an output tree that changes between two checks
PureOutPool ==
    { Path(Root, <<"a", ".", "webp">>),
      Path(Root, <<"a", "_", "png", ".", "webp">>),
      Path(Root, <<"a", ".", "jpg">>) }

\* the values of --output-format
FormatArgs == {"webp", "JPG"}

\* a flat directory of images in several formats
FlatPool ==
    { Path(Root, <<"a", ".", "png">>),
      Path(Root, <<"b", ".", "jpg">>),
      Path(Root, <<"c", ".", "bmp">>),
      Path(Root, <<"d", ".", "webp">>) }

\* the formats a conversion is asked for
TestFormats == {"webp", "png", "jpg", "bmp"}

\* the converter processes that run at the same time
Procs == {1, 2}

\* the files of their input trees
RacePool ==
    { Path(Root, <<"a", ".", "png">>),
      Path(Root, <<"a", ".", "jpg">>),
      Path(DirX, <<"a", ".", "png">>) }

\* the input trees of a check that detects its format
DetectInPool ==
    { Path(Root, <<"a", ".", "png">>),
      Path(Root, <<"a", ".", "jpg">>),
      Path(Root, <<"a", ".", "webp">>),
      Path(Root, <<"A", ".", "WEBP">>),
      Path(DirX, <<"a", ".", "PNG">>) }

\* the files of an output tree whose format is detected, by extension
WebpOut ==
    << Path(Root, <<"a", ".", "webp">>),
       Path(Root, <<"A", ".", "WEBP">>),
       Path(DirX, <<"a", ".", "webp">>),
       Path(Root, <<"a", "_", "png", ".", "webp">>),
       Path(Root, <<"a", "_", "jpg", ".", "webp">>),
       Path(DirX, <<"a", "_", "png", ".", "webp">>) >>
PngOut ==
    << Path(Root, <<"a", ".", "png">>),
       Path(DirX, <<"a", ".", "PNG">>),
       Path(Root, <<"a", "_", "jpg", ".", "png">>) >>
JpgOut ==
    << Path(DirX, <<"a", ".", "jpg">>),
       Path(Root, <<"a", ".", "JPG">>),
       Path(Root, <<"A", ".", "jpg">>) >>
OtherOut == << Path(Root, <<"n", ".", "txt">>) >>

\* the files of an output tree in which formats tie
TiePool ==
    { Path(Root, <<"a", ".", "png">>),
      Path(Root, <<"a", "_", "jpg", ".", "png">>),
      Path(Root, <<"a", ".", "JPG">>),
      Path(Root, <<"A", ".", "jpg">>),
      Path(Root, <<"a", ".", "webp">>),
      Path(DirX, <<"a", ".", "PNG">>),
      Path(DirX, <<"a", ".", "jpg">>),
      Path(Root, <<"n", ".", "txt">>) }

\* the files of the output folders one checker is used on
StickyPool ==
    { Path(Root, <<"a", ".", "png">>),
      Path(Root, <<"a", "_", "jpg", ".", "png">>),
      Path(Root, <<"a", ".", "webp">>),
      Path(Root, <<"a", "_", "png", ".", "webp">>) }

\* the first n files of a list
FirstOf(list, n) == {list[i] : i \in 1..(IF n < Len(list) THEN n ELSE Len(list))}

\* the values of --output-format and of predict_output_filenames' output_format
DetectArgs == FormatArgs \cup {"png"}

\* d and the directories above it
Ancestors(d) == {SubSeq(d, 1, k) : k \in 0..Len(d)}

DirsOf(files) == UNION {Ancestors(f.dir) : f \in files}

SmallSubsets(S, n) == {T \in SUBSET S : Cardinality(T) <= n}

\* directory sets of a tree holding `files`: closed under parents
TreeDirs(files) ==
    {D \cup {Root} : D \in {E \in SUBSET DirPool :
        /\ \A d \in E : Ancestors(d) \subseteq E \cup {Root}
        /\ DirsOf(files) \subseteq E \cup {Root}}}

----------------------------------------------------------------------------
(* webp_converter.py *)

\* one numbered name is tried and returned without a second look
WhileExistsOnce(output_path, counter, parent, stem_with_ext, exists) ==
    IF output_path \in exists
    THEN Path(parent, stem_with_ext \o <<"_", Digits(counter)>> \o Ext("webp"))
    ELSE output_path

RECURSIVE WhileExists(_, _, _, _, _)
\* the while loop of _generate_unique_filename
WhileExists(output_path, counter, parent, stem_with_ext, exists) ==
    IF output_path \in exists
    THEN WhileExists(Path(parent, stem_with_ext \o <<"_", Digits(counter)>> \o Ext("webp")),
                     counter + 1, parent, stem_with_ext, exists)
    ELSE output_path

\* the simple name is returned without asking whether it exists
GenerateUniqueFilenameUnchecked(base_path, original_extension, exists) ==
    WithSuffix(base_path, Ext("webp"))

\* WebPConverter._generate_unique_filename; `exists` is Path.exists
GenerateUniqueFilename(base_path, original_extension, exists) ==
    LET output_path == WithSuffix(base_path, Ext("webp"))
        stem_with_ext == Stem(base_path.name) \o <<"_">> \o Tail(original_extension)
    IN  IF output_path \notin exists
        THEN output_path
        ELSE WhileExists(Path(base_path.dir, stem_with_ext \o Ext("webp")), 1,
                         base_path.dir, stem_with_ext, exists)

\* the statistics dictionary as convert_directory initialises it
InitialStats ==
    [total_files |-> 0, converted |-> 0, failed |-> 0, skipped |-> 0,
     skipped_large |-> 0, webp_found |-> 0, total_output_files |-> 0,
     format_counts |-> [fmt \in ConverterFormats |-> 0]]

NoAlloc == [called |-> FALSE]

\* no call with keyword arguments has been made
NoCall == [keywords |-> {}, output_format |-> None]

\* the parameters of convert_directory
ConvertDirectoryParams ==
    {"input_dir", "output_dir", "quality", "lossless", "skip_node_modules"}

\* convert_directory up to its walk: the statistics are initialised
ConvertBegin ==
    /\ pc = "idle"
    /\ pc' = "walk"
    /\ pending' = inDirs
    /\ curDir' = None
    /\ todo' = {}
    /\ stats' = InitialStats
    /\ initOut' = outFiles
    /\ lastAlloc' = NoAlloc
    /\ UNCHANGED <<treeVars, chkVars, sideVars>>

\* convert_directory is called again on the same input and output
\* directories after it has returned
ConvertAgain ==
    /\ pc = "done"
    /\ Cardinality(outFiles) < MaxRerunOut
    /\ pc' = "walk"
    /\ pending' = inDirs
    /\ curDir' = None
    /\ todo' = {}
    /\ stats' = InitialStats
    /\ initOut' = outFiles
    /\ lastAlloc' = NoAlloc
    /\ UNCHANGED <<treeVars, chkVars, sideVars>>

\* a call convert_directory(input_dir, output_dir, **keywords); output_format
\* is the value passed under that keyword, if any.  A keyword that is no
\* parameter makes the call raise TypeError before the body runs.
ConvertDirectoryCall(keywords, output_format) ==
    /\ pc = "idle"
    /\ call' = [keywords |-> keywords, output_format |-> output_format]
    /\ IF keywords \subseteq ConvertDirectoryParams
       THEN /\ pc' = "walk"
            /\ pending' = inDirs
            /\ curDir' = None
            /\ todo' = {}
            /\ stats' = InitialStats
            /\ initOut' = outFiles
            /\ lastAlloc' = NoAlloc
       ELSE /\ pc' = "TypeError"
            /\ UNCHANGED <<pending, curDir, todo, stats, initOut, lastAlloc>>
    /\ UNCHANGED <<treeVars, chkVars, procs, content, lost, gui>>

\* out_dir is created only for a directory that holds a file
VisitDirOfFiles(d) ==
    /\ pc = "walk"
    /\ todo = {}
    /\ d \in pending
    /\ \A a \in Ancestors(d) \ {d} : a \notin pending
    /\ pending' = pending \ {d}
    /\ curDir' = d
    /\ todo' = {f \in inFiles : f.dir = d}
    /\ outDirs' = IF todo' = {} THEN outDirs ELSE outDirs \cup Ancestors(d)
    /\ UNCHANGED <<inFiles, inDirs, outFiles, stats, lastAlloc, initOut, pc, chkVars,
                   sideVars>>

\* os.walk yields directory d (top-down: after its parent); out_dir is created
VisitDir(d) ==
    /\ pc = "walk"
    /\ todo = {}
    /\ d \in pending
    /\ \A a \in Ancestors(d) \ {d} : a \notin pending
    /\ pending' = pending \ {d}
    /\ curDir' = d
    /\ todo' = {f \in inFiles : f.dir = d}
    /\ outDirs' = outDirs \cup Ancestors(d)
    /\ UNCHANGED <<inFiles, inDirs, outFiles, stats, lastAlloc, initOut, pc, chkVars,
                   sideVars>>

\* the file is counted in total_files and in no format
CountedInTotalOnly(suffix) ==
    [stats EXCEPT !.total_files = @ + 1]

\* the statistics after a file with a supported suffix has been counted
Counted(suffix) ==
    [stats EXCEPT !.total_files = @ + 1,
                  !.format_counts = [@ EXCEPT ![suffix] = @ + 1]]

\* one iteration of `for file in files`; `outcome` is what the file system and
\* the codec do: "statfail" (stat raises), "large" (over 50MB), "fail"
\* (convert_image returns False and leaves no file), "ok".  The existence
\* check and the write are one step: there is a single writer.
ProcessFile(file_path, outcome) ==
    LET suffix == Lower(Suffix(file_path.name))
        base_output_path == Path(file_path.dir, Stem(file_path.name))
        output_file == GenerateUniqueFilename(base_output_path, suffix, outFiles)
    IN
    /\ pc = "walk"
    /\ file_path \in todo
    /\ outcome # "ok" => stats.failed + stats.skipped_large < MaxTrouble
    /\ todo' = todo \ {file_path}
    /\ IF suffix \notin ConverterFormats
       THEN UNCHANGED <<stats, outFiles, lastAlloc>>
       ELSE IF suffix = Ext("webp")
       THEN /\ stats' = [Counted(suffix) EXCEPT !.skipped = @ + 1, !.webp_found = @ + 1]
            /\ UNCHANGED <<outFiles, lastAlloc>>
       ELSE IF outcome = "statfail"
       THEN /\ stats' = [Counted(suffix) EXCEPT !.failed = @ + 1]
            /\ UNCHANGED <<outFiles, lastAlloc>>
       ELSE IF outcome = "large"
       THEN /\ stats' = [Counted(suffix) EXCEPT !.skipped_large = @ + 1]
            /\ UNCHANGED <<outFiles, lastAlloc>>
       ELSE /\ lastAlloc' = [called |-> TRUE, source |-> file_path,
                             base |-> base_output_path, ext |-> suffix,
                             exists |-> outFiles, result |-> output_file]
            /\ IF outcome = "ok"
               THEN /\ stats' = [Counted(suffix) EXCEPT !.converted = @ + 1]
                    /\ outFiles' = outFiles \cup {output_file}
               ELSE /\ stats' = [Counted(suffix) EXCEPT !.failed = @ + 1]
                    /\ UNCHANGED outFiles
    /\ UNCHANGED <<inFiles, inDirs, outDirs, pc, pending, curDir, initOut, chkVars,
                   sideVars>>

\* the walk is over: the output files are counted and stats returned
ConvertEnd ==
    /\ pc = "walk"
    /\ todo = {}
    /\ pending = {}
    /\ pc' = "done"
    /\ stats' = [stats EXCEPT !.total_output_files = Cardinality(outFiles)]
    /\ UNCHANGED <<treeVars, pending, curDir, todo, lastAlloc, initOut, chkVars,
                   sideVars>>

----------------------------------------------------------------------------
(* Two converters, each running convert_directory on an input tree of its   *)
(* own, into one output directory.  The existence checks of                 *)
(* _generate_unique_filename are one step and convert_image, which writes   *)
(* the file, is a later step: steps of the other process may come between.  *)

\* everything the concurrent converters leave alone
raceFrame == <<inFiles, inDirs, pc, pending, curDir, todo, stats, lastAlloc, initOut,
               call, chkVars, gui>>

\* a process that has not called convert_directory yet
IdleProc(files) ==
    [input |-> files, pc |-> "idle", pending |-> {}, todo |-> {}, file |-> None,
     output_file |-> None, seen |-> {}, stats |-> InitialStats]

\* process p enters convert_directory: the statistics are initialised
RaceBegin(p) ==
    /\ procs[p].pc = "idle"
    /\ procs' = [procs EXCEPT ![p].pc = "walk",
                              ![p].pending = DirsOf(procs[p].input) \cup {Root}]
    /\ UNCHANGED <<outFiles, outDirs, content, lost, raceFrame>>

\* os.walk of process p yields directory d; out_dir is created
RaceVisitDir(p, d) ==
    /\ procs[p].pc = "walk"
    /\ procs[p].todo = {}
    /\ d \in procs[p].pending
    /\ \A a \in Ancestors(d) \ {d} : a \notin procs[p].pending
    /\ procs' = [procs EXCEPT ![p].pending = @ \ {d},
                              ![p].todo = {f \in procs[p].input : f.dir = d}]
    /\ outDirs' = outDirs \cup Ancestors(d)
    /\ UNCHANGED <<outFiles, content, lost, raceFrame>>

\* the statistics of a process after a file with a supported suffix is counted
RaceCounted(st, suffix) ==
    [st EXCEPT !.total_files = @ + 1,
               !.format_counts = [@ EXCEPT ![suffix] = @ + 1]]

\* process p takes the next file up to the call of convert_image: the file
\* is counted, its size is looked at and _generate_unique_filename chooses
\* the output path from the files that exist now
RaceAllocate(p, file_path, outcome) ==
    LET suffix == Lower(Suffix(file_path.name))
        base_output_path == Path(file_path.dir, Stem(file_path.name))
        output_file == GenerateUniqueFilename(base_output_path, suffix, outFiles)
        st == procs[p].stats
    IN
    /\ procs[p].pc = "walk"
    /\ file_path \in procs[p].todo
    /\ outcome # "ok" => st.failed + st.skipped_large < MaxTrouble
    /\ IF suffix \notin ConverterFormats
       THEN procs' = [procs EXCEPT ![p].todo = @ \ {file_path}]
       ELSE IF suffix = Ext("webp")
       THEN procs' = [procs EXCEPT
                ![p].todo = @ \ {file_path},
                ![p].stats = [RaceCounted(st, suffix) EXCEPT !.skipped = @ + 1,
                                                            !.webp_found = @ + 1]]
       ELSE IF outcome = "statfail"
       THEN procs' = [procs EXCEPT
                ![p].todo = @ \ {file_path},
                ![p].stats = [RaceCounted(st, suffix) EXCEPT !.failed = @ + 1]]
       ELSE IF outcome = "large"
       THEN procs' = [procs EXCEPT
                ![p].todo = @ \ {file_path},
                ![p].stats = [RaceCounted(st, suffix) EXCEPT !.skipped_large = @ + 1]]
       ELSE procs' = [procs EXCEPT
                ![p].pc = "convert",
                ![p].file = file_path,
                ![p].output_file = output_file,
                ![p].seen = outFiles,
                ![p].stats = RaceCounted(st, suffix)]
    /\ UNCHANGED <<outFiles, outDirs, content, lost, raceFrame>>

\* convert_image of process p: img.save writes output_file, over whatever is
\* there, or fails and leaves no file
RaceConvertImage(p, saved) ==
    LET output_file == procs[p].output_file
        st == procs[p].stats
    IN
    /\ procs[p].pc = "convert"
    /\ ~saved => st.failed + st.skipped_large < MaxTrouble
    /\ IF saved
       THEN /\ outFiles' = outFiles \cup {output_file}
            /\ content' = [q \in DOMAIN content \cup {output_file} |->
                              IF q = output_file
                              THEN [by |-> p, source |-> procs[p].file]
                              ELSE content[q]]
            /\ lost' = IF output_file \in DOMAIN content
                       THEN lost \cup {[path |-> output_file, by |-> p,
                                        of |-> content[output_file].by,
                                        source |-> content[output_file].source,
                                        seen |-> procs[p].seen]}
                       ELSE lost
       ELSE UNCHANGED <<outFiles, content, lost>>
    /\ procs' = [procs EXCEPT
             ![p].pc = "walk",
             ![p].todo = @ \ {procs[p].file},
             ![p].file = None,
             ![p].output_file = None,
             ![p].seen = {},
             ![p].stats = IF saved THEN [st EXCEPT !.converted = @ + 1]
                          ELSE [st EXCEPT !.failed = @ + 1]]
    /\ UNCHANGED <<outDirs, raceFrame>>

\* the walk of process p is over: the output files are counted
RaceEnd(p) ==
    /\ procs[p].pc = "walk"
    /\ procs[p].todo = {}
    /\ procs[p].pending = {}
    /\ procs' = [procs EXCEPT ![p].pc = "done",
                              ![p].stats = [@ EXCEPT !.total_output_files =
                                                        Cardinality(outFiles)]]
    /\ UNCHANGED <<outFiles, outDirs, content, lost, raceFrame>>

----------------------------------------------------------------------------
(* WebPConverterGUI.  The Convert button calls start_conversion; Tk calls   *)
(* the command of a button only while the button is not disabled.           *)

\* everything the window leaves alone
guiFrame == <<treeVars, chkVars, pc, pending, curDir, todo, stats, lastAlloc, initOut,
              call, procs, content, lost>>

\* what the user can choose as input and as output
InputPaths == {"photo.png", "photos"}
OutputPaths == {"out"}

\* Path.is_file() of an input path
IsFile(path) == path = "photo.png"

\* the window after setup_ui
SetupUi ==
    [input_var |-> "", output_var |-> "", convert_btn |-> "normal",
     progress_var |-> "Ready", threads |-> <<>>]

\* browse_input: the path is set, and the output path with it when that is empty
BrowseInput(path) ==
    /\ gui' = [gui EXCEPT
                 !.input_var = path,
                 !.output_var = IF gui.output_var # "" THEN gui.output_var
                                ELSE IF IsFile(path) THEN "photo.webp"
                                ELSE "photos/webp_output"]
    /\ gui' # gui
    /\ UNCHANGED guiFrame

\* browse_output
BrowseOutput(path) ==
    /\ gui' = [gui EXCEPT !.output_var = path]
    /\ gui' # gui
    /\ UNCHANGED guiFrame

\* start_conversion that leaves the Convert button as it is
StartConversionButtonLeft ==
    /\ Len(gui.threads) < MaxThreads
    /\ IF gui.input_var = "" \/ gui.output_var = ""
       THEN UNCHANGED gui
       ELSE gui' = [gui EXCEPT
                      !.progress_var = "Converting...",
                      !.threads = Append(@, [pc |-> "try", input_path |-> gui.input_var,
                                             raised |-> None])]
    /\ UNCHANGED guiFrame

\* start_conversion: without input or output an error box and nothing else;
\* else the button is disabled and the thread started
StartConversion ==
    /\ Len(gui.threads) < MaxThreads
    /\ IF gui.input_var = "" \/ gui.output_var = ""
       THEN UNCHANGED gui
       ELSE gui' = [gui EXCEPT
                      !.convert_btn = "disabled",
                      !.progress_var = "Converting...",
                      !.threads = Append(@, [pc |-> "try", input_path |-> gui.input_var,
                                             raised |-> None])]
    /\ UNCHANGED guiFrame

\* what the try block of convert_thread can come to: for a file, the size
\* cannot be read, the file is too large, convert_image fails (all three
\* call sys.exit) or succeeds; for a directory, convert_directory returns
\* without or with failed files, raises, or calls sys.exit
Outcomes(input_path) ==
    IF IsFile(input_path)
    THEN {"stat_error", "too_large", "failed", "ok"}
    ELSE {"ok", "errors", "exception", "exit"}

\* the try block of convert_thread, with its except clause
ConvertThreadTry(t, outcome) ==
    /\ t \in DOMAIN gui.threads
    /\ gui.threads[t].pc = "try"
    /\ outcome \in Outcomes(gui.threads[t].input_path)
    /\ gui' = [gui EXCEPT
                 !.threads[t].pc = "finally",
                 !.threads[t].raised =
                     IF IsFile(gui.threads[t].input_path)
                     THEN IF outcome = "ok" THEN None ELSE "SystemExit"
                     ELSE IF outcome = "exit" THEN "SystemExit" ELSE None,
                 !.progress_var =
                     IF IsFile(gui.threads[t].input_path) THEN @
                     ELSE IF outcome = "ok" THEN "Conversion completed!"
                     ELSE IF outcome = "errors" THEN "Conversion completed with errors"
                     ELSE IF outcome = "exception" THEN "Conversion failed!"
                     ELSE @]
    /\ UNCHANGED guiFrame

\* the finally clause of convert_thread: the button is enabled again and the
\* thread ends, with SystemExit when sys.exit was called
ConvertThreadFinally(t) ==
    /\ t \in DOMAIN gui.threads
    /\ gui.threads[t].pc = "finally"
    /\ gui' = [gui EXCEPT !.convert_btn = "normal",
                          !.threads[t].pc = "ended"]
    /\ UNCHANGED guiFrame

----------------------------------------------------------------------------
(* folder_checker.py *)

\* FolderChecker.__init__: output_format is lower-cased
NewChecker(output_format) == LowerChar(output_format)

\* FolderChecker.output_extension
OutputExtension(format) == Ext(format)

\* scan_folder with its two tests in the other order: the supported set,
\* which holds .webp, is asked first
ScanFolderSupportedFirst(files, dirs, output_extension) ==
    IF Root \notin dirs
    THEN [images |-> {}, output_files |-> {}, other_files |-> {}, directories |-> {}]
    ELSE [images |-> {f \in files : Lower(Suffix(f.name)) \in SUPPORTED_FORMATS},
          output_files |-> {f \in files : /\ Lower(Suffix(f.name)) \notin SUPPORTED_FORMATS
                                           /\ Lower(Suffix(f.name)) = output_extension},
          other_files |-> {f \in files : /\ Lower(Suffix(f.name)) # output_extension
                                          /\ Lower(Suffix(f.name)) \notin SUPPORTED_FORMATS},
          directories |-> dirs \ {Root}]

\* scan_folder that records a directory only when it holds a file
ScanFolderFileDirs(files, dirs, output_extension) ==
    IF Root \notin dirs
    THEN [images |-> {}, output_files |-> {}, other_files |-> {}, directories |-> {}]
    ELSE [images |-> {f \in files : /\ Lower(Suffix(f.name)) # output_extension
                                     /\ Lower(Suffix(f.name)) \in SUPPORTED_FORMATS},
          output_files |-> {f \in files : Lower(Suffix(f.name)) = output_extension},
          other_files |-> {f \in files : /\ Lower(Suffix(f.name)) # output_extension
                                          /\ Lower(Suffix(f.name)) \notin SUPPORTED_FORMATS},
          directories |-> {f.dir : f \in files} \ {Root}]

\* scan_folder that compares the suffix as it is spelled
ScanFolderAsSpelled(files, dirs, output_extension) ==
    IF Root \notin dirs
    THEN [images |-> {}, output_files |-> {}, other_files |-> {}, directories |-> {}]
    ELSE [images |-> {f \in files : /\ Suffix(f.name) # output_extension
                                     /\ Suffix(f.name) \in SUPPORTED_FORMATS},
          output_files |-> {f \in files : Suffix(f.name) = output_extension},
          other_files |-> {f \in files : /\ Suffix(f.name) # output_extension
                                          /\ Suffix(f.name) \notin SUPPORTED_FORMATS},
          directories |-> dirs \ {Root}]

\* FolderChecker.scan_folder of the tree (files, dirs); the root exists iff
\* Root \in dirs
ScanFolder(files, dirs, output_extension) ==
    IF Root \notin dirs
    THEN [images |-> {}, output_files |-> {}, other_files |-> {}, directories |-> {}]
    ELSE [images |-> {f \in files : /\ Lower(Suffix(f.name)) # output_extension
                                     /\ Lower(Suffix(f.name)) \in SUPPORTED_FORMATS},
          output_files |-> {f \in files : Lower(Suffix(f.name)) = output_extension},
          other_files |-> {f \in files : /\ Lower(Suffix(f.name)) # output_extension
                                          /\ Lower(Suffix(f.name)) \notin SUPPORTED_FORMATS},
          directories |-> dirs \ {Root}]

\* grouping under the lower-cased stem
StemKeyLowered(rel_path) == Lower(Stem(rel_path.name))

\* the key get_expected_output_files groups an image under
StemKey(rel_path) == Stem(rel_path.name)

\* stem_groups[key] of get_expected_output_files
StemGroup(key, input_images) == {img \in input_images : StemKey(img) = key}

\* the original extension is never put into the name
ExpectedOutputPathPlain(rel_path, input_images, output_extension) ==
    Path(rel_path.dir, Stem(rel_path.name) \o output_extension)

\* the original extension is always put into the name
ExpectedOutputPathSuffixed(rel_path, input_images, output_extension) ==
    Path(rel_path.dir,
         Stem(rel_path.name) \o <<"_">> \o Tail(Lower(Suffix(rel_path.name)))
             \o output_extension)

\* the original extension is put into the name as it is spelled
ExpectedOutputPathSpelled(rel_path, input_images, output_extension) ==
    LET stem == Stem(rel_path.name)
    IN  IF Cardinality({img \in input_images : Stem(img.name) = stem}) = 1
        THEN Path(rel_path.dir, stem \o output_extension)
        ELSE Path(rel_path.dir,
                  stem \o <<"_">> \o Tail(Suffix(rel_path.name)) \o output_extension)

\* the plain name is expected only while the output folder does not hold it
ExpectedOutputPathIfFree(rel_path, input_images, output_extension) ==
    LET stem == Stem(rel_path.name)
    IN  IF /\ Cardinality({img \in input_images : Stem(img.name) = stem}) = 1
           /\ Path(rel_path.dir, stem \o output_extension) \notin outFiles
        THEN Path(rel_path.dir, stem \o output_extension)
        ELSE Path(rel_path.dir,
                  stem \o <<"_">> \o Tail(Lower(Suffix(rel_path.name))) \o output_extension)

\* the path get_expected_output_files adds for rel_path
ExpectedOutputPath(rel_path, input_images, output_extension) ==
    LET stem == Stem(rel_path.name)
    IN  IF Cardinality(StemGroup(StemKey(rel_path), input_images)) = 1
        THEN Path(rel_path.dir, stem \o output_extension)
        ELSE Path(rel_path.dir,
                  stem \o <<"_">> \o Tail(Lower(Suffix(rel_path.name))) \o output_extension)

\* FolderChecker.get_expected_output_files, relative to the output folder
GetExpectedOutputFiles(input_images, output_extension) ==
    {ExpectedOutputPath(img, input_images, output_extension) : img \in input_images}

\* the images check_conversion_completeness keeps as convertible
ConvertibleImages(images, output_extension) ==
    {img \in images : Lower(Suffix(img.name)) # output_extension}

\* check_conversion_completeness that compares the expected files with every
\* file of the output scan, whatever its format
CheckConversionCompletenessAnyFormat(inF, inD, outF, outD, format) ==
    LET ext == OutputExtension(format)
        input_contents == ScanFolder(inF, inD, ext)
        output_contents == ScanFolder(outF, outD, ext)
        all_output == output_contents.output_files \cup output_contents.images
                         \cup output_contents.other_files
        convertible_images == ConvertibleImages(input_contents.images, ext)
        expected_output == GetExpectedOutputFiles(convertible_images, ext)
    IN  [format |-> format,
         missing_output |-> expected_output \ all_output,
         unexpected_output |-> all_output \ expected_output,
         missing_directories |-> input_contents.directories \ output_contents.directories,
         missing_other_files |-> input_contents.other_files \ output_contents.other_files,
         input_images |-> convertible_images,
         output_files |-> output_contents.output_files,
         expected_output |-> expected_output]

\* check_conversion_completeness that gives up when the output folder does
\* not exist and reports nothing
CheckConversionCompletenessNeedsOutput(inF, inD, outF, outD, format) ==
    LET ext == OutputExtension(format)
        input_contents == ScanFolder(inF, inD, ext)
        output_contents == ScanFolder(outF, outD, ext)
        convertible_images == ConvertibleImages(input_contents.images, ext)
        expected_output == GetExpectedOutputFiles(convertible_images, ext)
        there == Root \in outD
    IN  [format |-> format,
         missing_output |-> IF there THEN expected_output \ output_contents.output_files
                            ELSE {},
         unexpected_output |-> output_contents.output_files \ expected_output,
         missing_directories |-> IF there
                                 THEN input_contents.directories \ output_contents.directories
                                 ELSE {},
         missing_other_files |-> input_contents.other_files \ output_contents.other_files,
         input_images |-> convertible_images,
         output_files |-> output_contents.output_files,
         expected_output |-> expected_output]

\* FolderChecker.check_conversion_completeness with the format already set
CheckConversionCompleteness(inF, inD, outF, outD, format) ==
    LET ext == OutputExtension(format)
        input_contents == ScanFolder(inF, inD, ext)
        output_contents == ScanFolder(outF, outD, ext)
        convertible_images == ConvertibleImages(input_contents.images, ext)
        expected_output == GetExpectedOutputFiles(convertible_images, ext)
    IN  [format |-> format,
         missing_output |-> expected_output \ output_contents.output_files,
         unexpected_output |-> output_contents.output_files \ expected_output,
         missing_directories |-> input_contents.directories \ output_contents.directories,
         missing_other_files |-> input_contents.other_files \ output_contents.other_files,
         input_images |-> convertible_images,
         output_files |-> output_contents.output_files,
         expected_output |-> expected_output]

\* the key predict_output_filenames groups a file under
PredictKey(rel_path) == <<rel_path.dir, Stem(rel_path.name)>>

\* the path predict_output_filenames adds for rel_path
PredictedPath(rel_path, sources, output_extension) ==
    LET stem == Stem(rel_path.name)
    IN  IF Cardinality({r \in sources : PredictKey(r) = PredictKey(rel_path)}) = 1
        THEN Path(rel_path.dir, stem \o output_extension)
        ELSE Path(rel_path.dir,
                  stem \o <<"_">> \o Tail(Lower(Suffix(rel_path.name))) \o output_extension)

\* every supported file is put into a group, the target format included
PredictSourcesAnyFormat(files, output_extension) ==
    {f \in files : Lower(Suffix(f.name)) \in SUPPORTED_FORMATS}

\* the files predict_output_filenames puts into groups
PredictSources(files, output_extension) ==
    {f \in files : /\ Lower(Suffix(f.name)) \in SUPPORTED_FORMATS
                   /\ Lower(Suffix(f.name)) # output_extension}

\* predict_output_filenames(input_path, output_format)
PredictOutputFilenames(files, output_format) ==
    LET output_extension == Ext(LowerChar(output_format))
        sources == PredictSources(files, output_extension)
    IN  {PredictedPath(r, sources, output_extension) : r \in sources}

\* format_counts[suffix] of detect_output_format
FormatCount(files, suffix) ==
    Cardinality({f \in files : Lower(Suffix(f.name)) = suffix})

\* d is a directory above e
Above(d, e) == Len(d) < Len(e) /\ SubSeq(e, 1, Len(d)) = d

\* most_common(1) over suffixes counted as they are spelled
MostCommonAsSpelled(files) ==
    LET Count(s) == Cardinality({f \in files : Suffix(f.name) = s})
        found == {Suffix(f.name) : f \in files} \cap SUPPORTED_FORMATS
        top == {s \in found : \A t \in found : Count(t) <= Count(s)}
    IN  {s \in top :
            \E f \in files :
               /\ Suffix(f.name) = s
               /\ \A g \in files : Suffix(g.name) \in top \ {s} => ~Above(g.dir, f.dir)}

\* the suffixes format_counts.most_common(1) can return: a suffix of the
\* greatest count and, among several of them, the one counted first.  os.walk
\* lists the files of a directory before those of the directories below it;
\* the order within a directory and between sister directories is the file
\* system's
MostCommon(files) ==
    LET found == {Lower(Suffix(f.name)) : f \in files} \cap SUPPORTED_FORMATS
        top == {s \in found : \A t \in found : FormatCount(files, t) <= FormatCount(files, s)}
    IN  {s \in top :
            \E f \in files :
               /\ Lower(Suffix(f.name)) = s
               /\ \A g \in files :
                     Lower(Suffix(g.name)) \in top \ {s} => ~Above(g.dir, f.dir)}

\* the values FolderChecker.detect_output_format can return for the output
\* tree (files, dirs)
DetectOutputFormat(files, dirs) ==
    IF Root \notin dirs
    THEN {"webp"}
    ELSE IF MostCommon(files) = {}
    THEN {"webp"}
    ELSE {s[2] : s \in MostCommon(files)}

\* d is e or a directory above e
AtOrAbove(d, e) == Len(d) <= Len(e) /\ SubSeq(e, 1, Len(d)) = d

\* os.walk, top-down, lists the files in this order: the files of a
\* directory come before those of the directories below it, and the files
\* under one directory come in one run
IsWalkOrder(order, files) ==
    /\ {order[i] : i \in DOMAIN order} = files
    /\ Len(order) = Cardinality(files)
    /\ \A i, j \in DOMAIN order : Above(order[i].dir, order[j].dir) => i < j
    /\ \A i, j, k \in DOMAIN order :
          (i < j /\ j < k) =>
             \A d \in DirsOf(files) :
                (AtOrAbove(d, order[i].dir) /\ AtOrAbove(d, order[k].dir))
                   => AtOrAbove(d, order[j].dir)

\* the orders in which os.walk can list the files
WalkOrders(files) ==
    {order \in [1..Cardinality(files) -> files] : IsWalkOrder(order, files)}

RECURSIVE CountInOrder(_, _, _)
\* format_counts after the files order[i..] have been counted: the entries
\* <<suffix, count>> in the order of their insertion
CountInOrder(order, i, format_counts) ==
    IF i > Len(order)
    THEN format_counts
    ELSE LET suffix == Lower(Suffix(order[i].name))
             at == {k \in DOMAIN format_counts : format_counts[k][1] = suffix}
         IN  IF suffix \notin SUPPORTED_FORMATS
             THEN CountInOrder(order, i + 1, format_counts)
             ELSE IF at = {}
             THEN CountInOrder(order, i + 1, Append(format_counts, <<suffix, 1>>))
             ELSE CountInOrder(order, i + 1,
                     [k \in DOMAIN format_counts |->
                         IF k \in at
                         THEN <<suffix, format_counts[k][2] + 1>>
                         ELSE format_counts[k]])

\* the entry of the greatest count; among several, the one inserted last
MostCommonLast(format_counts) ==
    LET top == {k \in DOMAIN format_counts :
                   \A m \in DOMAIN format_counts : format_counts[m][2] <= format_counts[k][2]}
    IN  format_counts[CHOOSE k \in top : \A m \in top : m <= k]

\* format_counts.most_common(1)[0]: the entry of the greatest count; among
\* several, the one inserted first
MostCommonFirst(format_counts) ==
    LET top == {k \in DOMAIN format_counts :
                   \A m \in DOMAIN format_counts : format_counts[m][2] <= format_counts[k][2]}
    IN  format_counts[CHOOSE k \in top : \A m \in top : k <= m]

\* FolderChecker.detect_output_format when os.walk lists the files of the
\* output root in `order`
DetectOutputFormatInOrder(order, dirs) ==
    LET format_counts == CountInOrder(order, 1, <<>>)
    IN  IF Root \notin dirs
        THEN "webp"
        ELSE IF format_counts = <<>>
        THEN "webp"
        ELSE MostCommonFirst(format_counts)[1][2]

NoReport == [format |-> None]
NoPrediction == [format |-> None]
NoScan == [root |-> None]

\* check_conversion_completeness that detects the format at every call
CheckDetectsAgain ==
    /\ pc \in {"idle", "done"}
    /\ chkFormat # None
    /\ \E order \in WalkOrders(outFiles) :
          /\ walked' = IF Root \in outDirs THEN order ELSE <<>>
          /\ detected' = DetectOutputFormatInOrder(order, outDirs)
    /\ chkFormat' = detected'
    /\ report' = CheckConversionCompleteness(inFiles, inDirs, outFiles, outDirs, detected')
    /\ expected' = report'.expected_output
    /\ UNCHANGED <<treeVars, convVars, predicted, scanned, printed>>

\* a run of check_conversion_completeness on the two trees as they are
Check ==
    /\ pc \in {"idle", "done"}
    /\ chkFormat # None
    /\ report' = CheckConversionCompleteness(inFiles, inDirs, outFiles, outDirs, chkFormat)
    /\ expected' = report'.expected_output
    /\ UNCHANGED <<treeVars, convVars, chkFormat, predicted, scanned, detected, walked,
                   printed>>

\* a run of check_conversion_completeness by a checker made without a
\* format: the format is detected and kept
CheckAuto ==
    /\ pc \in {"idle", "done"}
    /\ chkFormat = None
    /\ \E format \in DetectOutputFormat(outFiles, outDirs) :
          /\ detected' = format
          /\ chkFormat' = format
          /\ report' = CheckConversionCompleteness(inFiles, inDirs, outFiles, outDirs, format)
    /\ expected' = report'.expected_output
    /\ UNCHANGED <<treeVars, convVars, predicted, scanned, walked, printed>>

\* the same run when os.walk lists the files of the output root in `order`
CheckAutoInOrder(order) ==
    /\ pc \in {"idle", "done"}
    /\ chkFormat = None
    /\ IsWalkOrder(order, outFiles)
    /\ walked' = IF Root \in outDirs THEN order ELSE <<>>
    /\ detected' = DetectOutputFormatInOrder(order, outDirs)
    /\ chkFormat' = detected'
    /\ report' = CheckConversionCompleteness(inFiles, inDirs, outFiles, outDirs, detected')
    /\ expected' = report'.expected_output
    /\ UNCHANGED <<treeVars, convVars, predicted, scanned, printed>>

\* a call of predict_output_filenames on the input tree, for the format
\* the checker verifies
Predict(output_format) ==
    /\ pc \in {"idle", "done"}
    /\ NewChecker(output_format) = chkFormat
    /\ predicted' = [format |-> LowerChar(output_format),
                     paths |-> PredictOutputFilenames(inFiles, output_format)]
    /\ UNCHANGED <<treeVars, convVars, chkFormat, expected, report, scanned, detected,
                   walked, printed>>

\* s starts with prefix
StartsWith(s, prefix) ==
    Len(prefix) <= Len(s) /\ SubSeq(s, 1, Len(prefix)) = prefix

\* the places in `order` of the expected paths the first loop of print_report
\* accepts for input_img: same stem, same directory
SameStemAt(input_img, order) ==
    {k \in DOMAIN order : /\ Stem(order[k].name) = Stem(input_img.name)
                          /\ order[k].dir = input_img.dir}

\* those its second loop accepts: the stem starts with the input's stem and
\* an underscore
PrefixedStemAt(input_img, order) ==
    {k \in DOMAIN order : /\ StartsWith(Stem(order[k].name), Stem(input_img.name) \o <<"_">>)
                          /\ order[k].dir = input_img.dir}

\* the first place of S: the loops break at their first match
Least(S) == CHOOSE k \in S : \A m \in S : k <= m

\* print_report gives input_img an entry in input_to_expected
HasExpected(input_img, order) ==
    SameStemAt(input_img, order) # {} \/ PrefixedStemAt(input_img, order) # {}

\* input_to_expected[input_img] of print_report; `order` is the order in
\* which the set expected_output is iterated
InputToExpected(input_img, order) ==
    IF SameStemAt(input_img, order) # {}
    THEN order[Least(SameStemAt(input_img, order))]
    ELSE order[Least(PrefixedStemAt(input_img, order))]

NoChecklist == [done |-> FALSE]

\* the checklist print_report prints for the results of the last check
PrintReport(order) ==
    /\ pc \in {"idle", "done"}
    /\ report.format # None
    /\ LET output_extension == OutputExtension(report.format)
           expected_output == GetExpectedOutputFiles(report.input_images, output_extension)
           paired == {img \in report.input_images : HasExpected(img, order)}
           skipped == {img \in report.input_images :
                          Lower(Suffix(img.name)) = output_extension}
       IN  /\ {order[k] : k \in DOMAIN order} = expected_output
           /\ Len(order) = Cardinality(expected_output)
           /\ printed' =
                 [done |-> TRUE,
                  input_to_expected |-> [img \in paired |-> InputToExpected(img, order)],
                  skipped |-> skipped,
                  converted |-> {img \in paired \ skipped :
                                    InputToExpected(img, order) \in report.output_files},
                  missing |-> {img \in paired \ skipped :
                                  InputToExpected(img, order) \notin report.output_files},
                  unknown |-> report.input_images \ (paired \cup skipped)]
    /\ UNCHANGED <<treeVars, convVars, chkFormat, expected, report, predicted, scanned,
                   detected, walked>>

\* a call of scan_folder on the input folder or on the output folder, by a
\* checker whose format is set
Scan(root) ==
    /\ pc \in {"idle", "done"}
    /\ chkFormat # None
    /\ scanned' = [root |-> root,
                   result |-> IF root = "input"
                              THEN ScanFolder(inFiles, inDirs, OutputExtension(chkFormat))
                              ELSE ScanFolder(outFiles, outDirs, OutputExtension(chkFormat))]
    /\ UNCHANGED <<treeVars, convVars, chkFormat, expected, report, predicted, detected,
                   walked, printed>>

\* the output folder is changed, created or removed by somebody else while
\* the checker is not running
OutputBecomes(files, dirs) ==
    /\ pc = "idle"
    /\ <<files, dirs>> # <<outFiles, outDirs>>
    /\ outFiles' = files
    /\ outDirs' = dirs
    /\ UNCHANGED <<inFiles, inDirs, convVars, chkVars>>

----------------------------------------------------------------------------
(* Specifications *)

\* the converter has not run, the checker has returned nothing
InitRest ==
    /\ pc = "idle"
    /\ pending = {}
    /\ curDir = None
    /\ todo = {}
    /\ stats = InitialStats
    /\ lastAlloc = NoAlloc
    /\ initOut = outFiles
    /\ expected = {}
    /\ report = NoReport
    /\ predicted = NoPrediction
    /\ scanned = NoScan
    /\ detected = None
    /\ walked = <<>>
    /\ printed = NoChecklist
    /\ call = NoCall
    /\ content = <<>>
    /\ lost = {}
    /\ gui = SetupUi

\* no converter process runs beside the one the variables pc to initOut are of
InitTail == InitRest /\ procs = <<>>

InitCommon ==
    /\ inFiles \in SmallSubsets(InPool, MaxFiles)
    /\ inDirs \in TreeDirs(inFiles)
    /\ InitTail

\* a conversion into an output directory that may already hold files,
\* followed by a check for webp
Init ==
    /\ outFiles \in SmallSubsets(PrePool, MaxPre)
    /\ outDirs = DirsOf(outFiles)
    /\ chkFormat = NewChecker("WEBP")
    /\ InitCommon

Next ==
    \/ ConvertBegin
    \/ \E d \in DirPool \cup {Root} : VisitDir(d)
    \/ \E f \in InPool, o \in {"ok", "fail", "statfail", "large"} : ProcessFile(f, o)
    \/ ConvertEnd
    \/ (pc = "done" /\ Check)

Spec == Init /\ [][Next]_vars

\* the checker and the predictor on arbitrary input and output trees
InitCheck ==
    /\ outFiles \in SmallSubsets(OutPool, MaxOut)
    /\ outDirs \in {DirsOf(outFiles), DirsOf(outFiles) \cup {Root}}
    /\ chkFormat \in {NewChecker(a) : a \in FormatArgs}
    /\ InitCommon

NextCheck ==
    \/ Check
    \/ \E a \in FormatArgs : Predict(a)

SpecCheck == InitCheck /\ [][NextCheck]_vars

\* scan_folder and check_conversion_completeness on arbitrary input and
\* output trees
InitScan ==
    /\ inFiles \in SmallSubsets(InPool, MaxScan)
    /\ inDirs \in TreeDirs(inFiles)
    /\ outFiles \in SmallSubsets(OutPool, MaxScan)
    /\ outDirs \in {DirsOf(outFiles), DirsOf(outFiles) \cup {Root}}
    /\ chkFormat \in {NewChecker(a) : a \in FormatArgs}
    /\ InitTail

NextScan ==
    \/ \E root \in {"input", "output"} : Scan(root)
    \/ Check

SpecScan == InitScan /\ [][NextScan]_vars

\* a checker made with or without a format, and the predictor
InitDetect ==
    /\ inFiles \in SmallSubsets(DetectInPool, MaxDetectIn)
    /\ inDirs = DirsOf(inFiles) \cup {Root}
    /\ \E w \in 0..MaxWebp, p \in 0..MaxOther, j \in 0..MaxOther, o \in 0..1 :
          outFiles = FirstOf(WebpOut, w) \cup FirstOf(PngOut, p)
                        \cup FirstOf(JpgOut, j) \cup FirstOf(OtherOut, o)
    /\ outDirs \in {DirsOf(outFiles), DirsOf(outFiles) \cup {Root}}
    /\ chkFormat \in {None} \cup {NewChecker(a) : a \in FormatArgs}
    /\ InitTail

NextDetect ==
    \/ Check
    \/ CheckAuto
    \/ \E a \in DetectArgs : Predict(a)

SpecDetect == InitDetect /\ [][NextDetect]_vars

\* a checker made without a format, on output trees in which formats tie
InitTie ==
    /\ inFiles \in SmallSubsets(DetectInPool, MaxTieIn)
    /\ inDirs = DirsOf(inFiles) \cup {Root}
    /\ outFiles \in SmallSubsets(TiePool, MaxTie)
    /\ outDirs \in {DirsOf(outFiles), DirsOf(outFiles) \cup {Root}}
    /\ chkFormat = None
    /\ InitTail

NextTie ==
    \/ \E order \in WalkOrders(outFiles) : CheckAutoInOrder(order)
    \/ Check

SpecTie == InitTie /\ [][NextTie]_vars

\* convert_directory run again and again into one output directory that
\* may hold files before the first run
InitRerun ==
    /\ inFiles \in SmallSubsets(InPool, MaxRerunIn)
    /\ inDirs = DirsOf(inFiles) \cup {Root}
    /\ outFiles \in SmallSubsets(PrePool, MaxPre)
    /\ outDirs = DirsOf(outFiles)
    /\ chkFormat = None
    /\ InitTail

NextRerun ==
    \/ ConvertBegin
    \/ \E d \in DirPool \cup {Root} : VisitDir(d)
    \/ \E f \in InPool, o \in {"ok", "fail", "statfail", "large"} : ProcessFile(f, o)
    \/ ConvertEnd
    \/ ConvertAgain

SpecRerun == InitRerun /\ [][NextRerun]_vars

\* the output folders one checker is used on
StickyOutTrees ==
    {<<files, {Root}>> : files \in SmallSubsets(StickyPool, MaxStickyOut)}
        \cup {<<{}, {}>>}

\* one checker, made with or without a format, used for check after check
\* on output folders that differ
InitSticky ==
    /\ inFiles \in SmallSubsets(DetectInPool, MaxStickyIn)
    /\ inDirs = DirsOf(inFiles) \cup {Root}
    /\ \E tree \in StickyOutTrees : outFiles = tree[1] /\ outDirs = tree[2]
    /\ chkFormat \in {None} \cup {NewChecker(a) : a \in FormatArgs}
    /\ InitTail

NextSticky ==
    \/ \E order \in WalkOrders(outFiles) : CheckAutoInOrder(order)
    \/ Check
    \/ \E tree \in StickyOutTrees : OutputBecomes(tree[1], tree[2])

SpecSticky == InitSticky /\ [][NextSticky]_vars

\* the orders in which a set of paths can be iterated
IterationOrders(paths) ==
    {order \in [1..Cardinality(paths) -> paths] :
        {order[k] : k \in DOMAIN order} = paths}

\* a check on an existing output folder, and its report printed
InitReport ==
    /\ inFiles \in SmallSubsets(InPool, MaxReportIn)
    /\ inDirs = DirsOf(inFiles) \cup {Root}
    /\ outFiles \in SmallSubsets(OutPool, MaxReportOut)
    /\ outDirs = DirsOf(outFiles) \cup {Root}
    /\ chkFormat \in {NewChecker(a) : a \in FormatArgs}
    /\ InitTail

NextReport ==
    \/ Check
    \/ \E order \in IterationOrders(expected) : PrintReport(order)

SpecReport == InitReport /\ [][NextReport]_vars

\* the window: the user browses and clicks Convert while threads run
InitGui ==
    /\ inFiles = {}
    /\ inDirs = {Root}
    /\ outFiles = {}
    /\ outDirs = {}
    /\ chkFormat = None
    /\ InitTail

NextGui ==
    \/ \E path \in InputPaths : BrowseInput(path)
    \/ \E path \in OutputPaths : BrowseOutput(path)
    \/ (gui.convert_btn = "normal" /\ StartConversion)
    \/ \E t \in 1..MaxThreads, outcome \in {"stat_error", "too_large", "failed", "ok",
                                          "errors", "exception", "exit"} :
          ConvertThreadTry(t, outcome)
    \/ \E t \in 1..MaxThreads : ConvertThreadFinally(t)

SpecGui == InitGui /\ [][NextGui]_vars

\* the output trees of a check that is repeated
PureOutTrees ==
    {<<files, DirsOf(files) \cup {Root}>> : files \in SmallSubsets(PureOutPool, MaxPure)}
        \cup {<<{}, {}>>}

\* the checker and the predictor called again and again while the output
\* tree changes
InitPure ==
    /\ inFiles \in SmallSubsets(InPool, MaxPure)
    /\ inDirs = DirsOf(inFiles) \cup {Root}
    /\ \E tree \in PureOutTrees : outFiles = tree[1] /\ outDirs = tree[2]
    /\ chkFormat \in {NewChecker(a) : a \in FormatArgs}
    /\ InitTail

NextPure ==
    \/ Check
    \/ \E a \in FormatArgs : Predict(a)
    \/ \E tree \in PureOutTrees : OutputBecomes(tree[1], tree[2])

SpecPure == InitPure /\ [][NextPure]_vars

\* convert_directory called on a flat directory, with quality alone or with
\* quality and output_format, into an output directory that does not exist yet
InitFormat ==
    /\ inFiles \in SmallSubsets(FlatPool, MaxFlat)
    /\ inDirs = {Root}
    /\ outFiles = {}
    /\ outDirs = {}
    /\ chkFormat = None
    /\ InitTail

NextFormat ==
    \/ ConvertDirectoryCall({"quality"}, None)
    \/ \E F \in TestFormats : ConvertDirectoryCall({"quality", "output_format"}, F)
    \/ \E d \in {Root} : VisitDir(d)
    \/ \E f \in FlatPool, o \in {"ok", "fail", "statfail", "large"} : ProcessFile(f, o)
    \/ ConvertEnd

SpecFormat == InitFormat /\ [][NextFormat]_vars

\* two converters start on input trees of their own, with no output
\* directory yet
InitRace ==
    /\ inFiles = {}
    /\ inDirs = {Root}
    /\ outFiles = {}
    /\ outDirs = {}
    /\ chkFormat = None
    /\ procs \in [Procs -> {IdleProc(files) :
                              files \in SmallSubsets(RacePool, MaxRace) \ {{}}}]
    /\ InitRest

NextRace ==
    \E p \in Procs :
        \/ RaceBegin(p)
        \/ \E d \in DirPool \cup {Root} : RaceVisitDir(p, d)
        \/ \E f \in RacePool, o \in {"ok", "statfail", "large"} : RaceAllocate(p, f, o)
        \/ \E saved \in BOOLEAN : RaceConvertImage(p, saved)
        \/ RaceEnd(p)

SpecRace == InitRace /\ [][NextRace]_vars

----------------------------------------------------------------------------
(* Properties *)

\* check_conversion_completeness has returned a report
Checked == report.format # None
\* predict_output_filenames has returned a prediction
HasPrediction == predicted.format # None

\* parent/stem.<targetExt>
PlainName(f, format) == Path(f.dir, Stem(f.name) \o <<".", format>>)

\* parent/stem_<original extension, lower-cased, without dot>.<targetExt>
SuffixedName(f, format) ==
    Path(f.dir, Stem(f.name) \o <<"_", LowerChar(f.name[Len(f.name)]), ".", format>>)

SameExtension(f, g) == Lower(Suffix(f.name)) = Lower(Suffix(g.name))
\* same directory and same stem
Siblings(f, g) == f # g /\ f.dir = g.dir /\ Stem(f.name) = Stem(g.name)
\* same directory and stems that differ in letter case only
CaseSiblings(f, g) ==
    /\ f.dir = g.dir
    /\ Stem(f.name) # Stem(g.name)
    /\ Lower(Stem(f.name)) = Lower(Stem(g.name))
\* members of one stem group, keyed by (parent, lower-cased stem)
SameGroup(f, g) == f # g /\ f.dir = g.dir /\ Lower(Stem(f.name)) = Lower(Stem(g.name))

IsTargetFile(f, format) == Lower(Suffix(f.name)) = <<".", format>>

\* the files the converter converts: supported and not .webp
Convertible(files) ==
    {f \in files : Lower(Suffix(f.name)) \in ConverterFormats \ {Ext("webp")}}

\* the sources of the last prediction
PredictionSources == PredictSources(inFiles, Ext(predicted.format))

\* C1: after convert_directory has converted the input into an initially empty
\* output directory with every conversion succeeding and nothing skipped, the
\* check for webp reports no missing and no unexpected output
C1_ConverterCheckerAgree ==
    (/\ pc = "done"
     /\ Checked
     /\ report.format = "webp"
     /\ initOut = {}
     /\ stats.failed = 0
     /\ stats.skipped_large = 0)
    => (report.missing_output = {} /\ report.unexpected_output = {})

\* the output root holds every expected file and no other file of the target format
OutputIsExpected ==
    /\ expected \subseteq outFiles
    /\ \A f \in outFiles : IsTargetFile(f, report.format) => f \in expected

\* C2: when the output root holds exactly the expected output files (and no
\* other file of the target format), the report has no missing and no
\* unexpected output
C2_RoundTrip ==
    (Checked /\ OutputIsExpected)
    => (report.missing_output = {} /\ report.unexpected_output = {})

C2_Witness ==
    /\ Checked
    /\ OutputIsExpected
    /\ Cardinality(expected) = 2
    /\ \E f, g \in report.input_images : Siblings(f, g)
    /\ report.missing_output = {}
    /\ report.unexpected_output = {}

\* C3: when the members of every stem group have pairwise distinct original
\* extensions (case-insensitively), there are as many expected outputs as
\* convertible source files, in the checker and in the predictor
C3_CollisionFree ==
    /\ (/\ Checked
        /\ \A f, g \in report.input_images : SameGroup(f, g) => ~SameExtension(f, g))
       => Cardinality(report.expected_output) = Cardinality(report.input_images)
    /\ (/\ HasPrediction
        /\ \A f, g \in PredictionSources : SameGroup(f, g) => ~SameExtension(f, g))
       => Cardinality(predicted.paths) = Cardinality(PredictionSources)

\* C4: two files of one directory with the same stem and different original
\* extensions (case-insensitively) have different expected outputs, in the
\* checker and in the predictor
C4_GroupBijection ==
    /\ Checked =>
         \A f, g \in report.input_images :
            (SameGroup(f, g) /\ ~SameExtension(f, g)) =>
               LET ext == Ext(report.format)
                   pf == ExpectedOutputPath(f, report.input_images, ext)
                   pg == ExpectedOutputPath(g, report.input_images, ext)
               IN  pf # pg /\ {pf, pg} \subseteq report.expected_output
    /\ HasPrediction =>
         \A f, g \in PredictionSources :
            (SameGroup(f, g) /\ ~SameExtension(f, g)) =>
               LET ext == Ext(predicted.format)
                   pf == PredictedPath(f, PredictionSources, ext)
                   pg == PredictedPath(g, PredictionSources, ext)
               IN  pf # pg /\ {pf, pg} \subseteq predicted.paths

C4_Witness ==
    /\ Checked
    /\ HasPrediction
    /\ \E f, g \in report.input_images :
          /\ Siblings(f, g)
          /\ ~SameExtension(f, g)
          /\ Cardinality(report.expected_output) = Cardinality(report.input_images)
          /\ Cardinality(predicted.paths) = Cardinality(report.input_images)
          /\ Cardinality(report.input_images) = 3

\* C5: a file that shares directory and stem with another convertible file is
\* expected at parent/stem_<original extension in lower case>.<targetExt> and
\* not at parent/stem.<targetExt>; {a.png, a.jpg} gives {a_png.webp, a_jpg.webp}
C5_SuffixRule ==
    /\ Checked =>
         \A f \in report.input_images :
            (\E g \in report.input_images : Siblings(f, g)) =>
               LET pf == ExpectedOutputPath(f, report.input_images, Ext(report.format))
               IN  /\ pf = SuffixedName(f, report.format)
                   /\ pf # PlainName(f, report.format)
                   /\ pf \in report.expected_output
    /\ HasPrediction =>
         \A f \in PredictionSources :
            (\E g \in PredictionSources : Siblings(f, g)) =>
               LET pf == PredictedPath(f, PredictionSources, Ext(predicted.format))
               IN  /\ pf = SuffixedName(f, predicted.format)
                   /\ pf # PlainName(f, predicted.format)
                   /\ pf \in predicted.paths
    /\ (inFiles = {Path(Root, <<"a", ".", "png">>), Path(Root, <<"a", ".", "jpg">>)}) =>
         /\ (Checked /\ report.format = "webp") =>
               report.expected_output = {Path(Root, <<"a", "_", "png", ".", "webp">>),
                                         Path(Root, <<"a", "_", "jpg", ".", "webp">>)}
         /\ (HasPrediction /\ predicted.format = "webp") =>
               predicted.paths = {Path(Root, <<"a", "_", "png", ".", "webp">>),
                                  Path(Root, <<"a", "_", "jpg", ".", "webp">>)}

C5_Witness ==
    /\ Checked
    /\ HasPrediction
    /\ inFiles = {Path(Root, <<"a", ".", "PNG">>), Path(Root, <<"a", ".", "jpg">>)}
    /\ report.format = "webp"
    /\ report.expected_output = {Path(Root, <<"a", "_", "png", ".", "webp">>),
                                 Path(Root, <<"a", "_", "jpg", ".", "webp">>)}
    /\ predicted.paths = report.expected_output

\* C6: when no two convertible source files of the input share a stem, the
\* expected outputs are exactly the paths parent/stem.<targetExt>
C6_SingletonRule ==
    /\ (/\ Checked
        /\ \A f, g \in report.input_images : f # g => Stem(f.name) # Stem(g.name))
       => report.expected_output =
             {PlainName(f, report.format) : f \in report.input_images}
    /\ (/\ HasPrediction
        /\ \A f, g \in PredictionSources : f # g => Stem(f.name) # Stem(g.name))
       => predicted.paths = {PlainName(f, predicted.format) : f \in PredictionSources}

C6_Witness ==
    /\ Checked
    /\ HasPrediction
    /\ Cardinality(report.input_images) = 3
    /\ \A f, g \in report.input_images : f # g => Stem(f.name) # Stem(g.name)
    /\ report.expected_output = {PlainName(f, report.format) : f \in report.input_images}
    /\ predicted.paths = report.expected_output

\* C7: a convertible file that is alone in its directory with its stem is
\* expected at parent/stem.<targetExt>, whatever other directories hold
C7_KeyedByParent ==
    /\ Checked =>
         \A f \in report.input_images :
            (\A g \in report.input_images : ~Siblings(f, g)) =>
               /\ ExpectedOutputPath(f, report.input_images, Ext(report.format))
                     = PlainName(f, report.format)
               /\ PlainName(f, report.format) \in report.expected_output
    /\ HasPrediction =>
         \A f \in PredictionSources :
            (\A g \in PredictionSources : ~Siblings(f, g)) =>
               /\ PredictedPath(f, PredictionSources, Ext(predicted.format))
                     = PlainName(f, predicted.format)
               /\ PlainName(f, predicted.format) \in predicted.paths

\* C8 as stated: two convertible files of one directory whose stems differ in
\* letter case only both get the extension-suffixed expected output
C8_CaseNormalizedStem ==
    /\ Checked =>
         \A f, g \in report.input_images :
            CaseSiblings(f, g) =>
               ExpectedOutputPath(f, report.input_images, Ext(report.format))
                  = SuffixedName(f, report.format)
    /\ HasPrediction =>
         \A f, g \in PredictionSources :
            CaseSiblings(f, g) =>
               PredictedPath(f, PredictionSources, Ext(predicted.format))
                  = SuffixedName(f, predicted.format)

\* C8 amended: stems are grouped as they are spelled; a file whose stem is
\* spelled like no other convertible file's stem is expected at
\* parent/stem.<targetExt>, also when a file of its directory has the same
\* stem in another letter case
C8_CaseSensitiveStem ==
    /\ Checked =>
         \A f \in report.input_images :
            (/\ \E g \in report.input_images : CaseSiblings(f, g)
             /\ \A g \in report.input_images : g # f => Stem(g.name) # Stem(f.name))
            => /\ ExpectedOutputPath(f, report.input_images, Ext(report.format))
                     = PlainName(f, report.format)
               /\ PlainName(f, report.format) \in report.expected_output
    /\ HasPrediction =>
         \A f \in PredictionSources :
            (/\ \E g \in PredictionSources : CaseSiblings(f, g)
             /\ \A g \in PredictionSources : g # f => Stem(g.name) # Stem(f.name))
            => /\ PredictedPath(f, PredictionSources, Ext(predicted.format))
                     = PlainName(f, predicted.format)
               /\ PlainName(f, predicted.format) \in predicted.paths

C8_Witness ==
    /\ Checked
    /\ HasPrediction
    /\ inFiles = {Path(Root, <<"A", ".", "jpg">>), Path(Root, <<"a", ".", "png">>)}
    /\ report.format = "webp"
    /\ report.expected_output = {Path(Root, <<"A", ".", "webp">>),
                                 Path(Root, <<"a", ".", "webp">>)}
    /\ predicted.paths = report.expected_output

\* base.webp, base_<ext>.webp, base_<ext>_1.webp, ...: the first that is not
\* in `exists`
FirstFreeCandidate(base, ext, exists) ==
    LET plain == Path(base.dir, base.name \o <<".", "webp">>)
        withExt == base.name \o <<"_", ext[2]>>
        Numbered(n) == Path(base.dir, withExt \o <<"_", ToString(n), ".", "webp">>)
    IN  IF plain \notin exists THEN plain
        ELSE IF Path(base.dir, withExt \o <<".", "webp">>) \notin exists
        THEN Path(base.dir, withExt \o <<".", "webp">>)
        ELSE Numbered(CHOOSE n \in 1..(Cardinality(exists) + 1) :
                 /\ Numbered(n) \notin exists
                 /\ \A m \in 1..(n - 1) : Numbered(m) \in exists)

\* C9: _generate_unique_filename returns the first of base.webp,
\* base_<ext>.webp, base_<ext>_1.webp, ... that does not exist, where base is
\* the output directory joined with the full stem of the source file
C9_AllocatorResult ==
    lastAlloc.called =>
        /\ lastAlloc.result \notin lastAlloc.exists
        /\ lastAlloc.result =
              FirstFreeCandidate(lastAlloc.base, lastAlloc.ext, lastAlloc.exists)

\* C10: when no stem group has more than one member, the checker's expected
\* output of every convertible file is the path _generate_unique_filename
\* returns for it in an empty output directory
C10_BatchIncrementalAgreement ==
    (/\ Checked
     /\ report.format = "webp"
     /\ \A f, g \in report.input_images : ~SameGroup(f, g))
    => \A f \in report.input_images :
          ExpectedOutputPath(f, report.input_images, Ext("webp"))
             = GenerateUniqueFilename(Path(f.dir, Stem(f.name)),
                                      Lower(Suffix(f.name)), {})

\* scan_folder has returned
Scanned == scanned.root # None

\* the files of the target format an existing output root holds
TargetFilesInOutput ==
    IF Root \in outDirs THEN {f \in outFiles : IsTargetFile(f, report.format)} ELSE {}

\* a target-format file of the output that is neither the plain nor the
\* suffixed name of any input file
Stray(f) ==
    /\ f \in TargetFilesInOutput
    /\ \A g \in inFiles : f # PlainName(g, report.format) /\ f # SuffixedName(g, report.format)

\* C11: missing_output is exactly the expected paths that are not files of
\* the target format in the output, unexpected_output exactly the files of the
\* target format in the output that are not expected; {a.jpg} with output
\* {a.webp} has nothing missing, and a stray target-format file of the output
\* is unexpected
C11_ExactDifferences ==
    Checked =>
        /\ report.missing_output =
              {p \in report.expected_output : p \notin TargetFilesInOutput}
        /\ report.unexpected_output =
              {f \in TargetFilesInOutput : f \notin report.expected_output}
        /\ (/\ inFiles = {Path(Root, <<"a", ".", "jpg">>)}
            /\ Path(Root, <<"a", ".", "webp">>) \in outFiles
            /\ report.format = "webp") => report.missing_output = {}
        /\ \A f \in outFiles : Stray(f) => f \in report.unexpected_output

C11_Witness ==
    /\ Checked
    /\ report.format = "webp"
    /\ inFiles = {Path(Root, <<"a", ".", "jpg">>)}
    /\ outFiles = {Path(Root, <<"a", ".", "webp">>), Path(Root, <<"A", ".", "webp">>)}
    /\ report.missing_output = {}
    /\ Stray(Path(Root, <<"A", ".", "webp">>))
    /\ report.unexpected_output = {Path(Root, <<"A", ".", "webp">>)}

\* C12: missing_directories is exactly the directories of the input tree, at
\* any depth and with or without images in them, that the output tree does
\* not have at the same relative path
C12_DirectoryParity ==
    Checked =>
        report.missing_directories = {d \in inDirs \ {Root} : d \notin outDirs}

C12_Witness ==
    /\ Checked
    /\ inDirs = {Root, DirX}
    /\ \A f \in inFiles : f.dir = Root
    /\ Root \in outDirs
    /\ DirX \notin outDirs
    /\ report.missing_directories = {DirX}

\* the tree the last scan_folder call walked
ScannedFiles == IF scanned.root = "input" THEN inFiles ELSE outFiles
ScannedDirs == IF scanned.root = "input" THEN inDirs ELSE outDirs

\* the number of the three file sets of the last scan that hold f
TimesListed(f) ==
    Cardinality({k \in {"output_files", "images", "other_files"} : f \in scanned.result[k]})

\* C14: after scan_folder on an existing root every file under the root is in
\* exactly one of output_files, images and other_files: in output_files iff
\* its lower-cased extension is the target extension, else in images iff it
\* is a supported extension, else in other_files; directories holds every
\* directory below the root and not the root
C14_ScanPartition ==
    (Scanned /\ Root \in ScannedDirs) =>
        LET r == scanned.result
            ext == <<".", chkFormat>>
        IN  /\ \A f \in ScannedFiles :
                 LET sfx == Lower(Suffix(f.name))
                 IN  /\ TimesListed(f) = 1
                     /\ f \in r.output_files <=> sfx = ext
                     /\ f \in r.images <=> (sfx # ext /\ sfx \in SUPPORTED_FORMATS)
                     /\ f \in r.other_files <=> (sfx # ext /\ sfx \notin SUPPORTED_FORMATS)
            /\ (r.output_files \cup r.images \cup r.other_files) \subseteq ScannedFiles
            /\ r.directories = ScannedDirs \ {Root}
            /\ Root \notin r.directories

C14_Witness ==
    /\ Scanned
    /\ scanned.root = "input"
    /\ chkFormat = "jpg"
    /\ inDirs = {Root, DirX, DirXY}
    /\ Path(Root, <<"a", ".", "PNG">>) \in scanned.result.images
    /\ Path(Root, <<"A", ".", "jpg">>) \in scanned.result.output_files
    /\ scanned.result.other_files = {}
    /\ scanned.result.directories = {DirX, DirXY}

\* C15: scan_folder on a root that does not exist returns four empty sets,
\* and check_conversion_completeness with an output root that does not exist
\* reports every expected output as missing, every input directory as
\* missing and no unexpected output
C15_MissingRoot ==
    /\ (Scanned /\ Root \notin ScannedDirs) =>
          /\ scanned.result.images = {}
          /\ scanned.result.output_files = {}
          /\ scanned.result.other_files = {}
          /\ scanned.result.directories = {}
    /\ (Checked /\ Root \notin outDirs) =>
          /\ report.missing_output = report.expected_output
          /\ report.missing_directories = inDirs \ {Root}
          /\ report.unexpected_output = {}

C15_Witness ==
    /\ Scanned
    /\ scanned.root = "output"
    /\ Root \notin outDirs
    /\ scanned.result.directories = {}
    /\ Checked
    /\ Cardinality(report.expected_output) = 2
    /\ report.missing_output = report.expected_output
    /\ report.missing_directories = {DirX, DirXY}

\* the input files that are already in the format
TargetSources(format) == {f \in inFiles : IsTargetFile(f, format)}

Occurrences(e) ==
    Cardinality({f \in outFiles :
        /\ Len(f.name) >= 3
        /\ f.name[Len(f.name) - 1] = "."
        /\ LowerChar(f.name[Len(f.name)]) = e})

SupportedNames == {e[2] : e \in SUPPORTED_FORMATS}

\* C16: detect_output_format returns a supported extension, without dot and in
\* lower case, that no other supported extension outnumbers among the files
\* of the output tree, counted in any letter case (5 .webp and 2 .png files
\* give webp); it returns webp when the output root does not exist or holds
\* no file with a supported extension
C16_MostFrequentFormat ==
    detected # None =>
        IF Root \notin outDirs \/ \A e \in SupportedNames : Occurrences(e) = 0
        THEN detected = "webp"
        ELSE /\ detected \in SupportedNames
             /\ Occurrences(detected) > 0
             /\ \A e \in SupportedNames : Occurrences(e) <= Occurrences(detected)
             /\ (Occurrences("webp") = 5 /\ Occurrences("png") = 2 /\ Occurrences("jpg") < 5)
                   => detected = "webp"

C16_Witness ==
    /\ detected = "webp"
    /\ chkFormat = "webp"
    /\ Occurrences("webp") = 5
    /\ Occurrences("png") = 2
    /\ Occurrences("jpg") = 0
    /\ Path(Root, <<"A", ".", "WEBP">>) \in outFiles

\* the defaults of detect_output_format
C16_WitnessDefault ==
    /\ detected = "webp"
    /\ Root \in outDirs
    /\ outFiles = {Path(Root, <<"n", ".", "txt">>)}

\* C17: for the same input files and the same format, get_expected_output_files
\* and predict_output_filenames return the same paths on every call, whatever
\* the output folder holds and whether it exists
C17_ExpectedIsPure ==
    [][/\ (/\ Checked
            /\ Checked'
            /\ inFiles' = inFiles
            /\ report'.format = report.format)
           => report'.expected_output = report.expected_output
       /\ (/\ HasPrediction
            /\ HasPrediction'
            /\ inFiles' = inFiles
            /\ predicted'.format = predicted.format)
           => predicted'.paths = predicted.paths]_vars

\* a report and a prediction exist and the output folder has lost its files
\* and itself since the report was made
C17_Witness ==
    /\ Checked
    /\ HasPrediction
    /\ Cardinality(report.expected_output) = 2
    /\ report.output_files # {}
    /\ report.missing_output # report.expected_output
    /\ Root \notin outDirs

\* the images among the input files whose extension is not F
NotYet(F) ==
    {f \in inFiles : /\ Lower(Suffix(f.name)) \in SUPPORTED_FORMATS
                      /\ Lower(Suffix(f.name)) # <<".", F>>}

\* C18: a call convert_directory(input_dir, output_dir, quality=80,
\* output_format=F), F one of webp, png, jpg, bmp, on a flat directory of
\* images with different stems returns statistics with converted > 0 and
\* leaves output_dir/<stem>.<F> for every input image that is not in F
C18_ConfigurableFormat ==
    \A F \in TestFormats :
        (/\ "output_format" \in call.keywords
         /\ call.output_format = F
         /\ pc \notin {"idle", "walk"}
         /\ NotYet(F) # {})
        => /\ pc = "done"
           /\ stats.converted > 0
           /\ \A f \in NotYet(F) : Path(Root, Stem(f.name) \o <<".", F>>) \in outFiles

\* C19: when convert_directory has returned, every directory of the input
\* tree, with or without images, exists at the same relative path under the
\* output root, and every file it converts is written into the directory
\* that mirrors the directory of its source, which exists by then
C19_StructurePreserved ==
    /\ pc = "done" => \A d \in inDirs : d \in outDirs
    /\ lastAlloc.called =>
          /\ lastAlloc.result.dir = lastAlloc.source.dir
          /\ lastAlloc.result.dir \in outDirs
    /\ \A f \in outFiles \ initOut :
          /\ f.dir \in outDirs
          /\ \E g \in Convertible(inFiles) : g.dir = f.dir

C19_Witness ==
    /\ pc = "done"
    /\ inDirs = {Root, DirX, DirXY}
    /\ \A f \in inFiles : f.dir = DirX
    /\ outDirs = {Root, DirX, DirXY}
    /\ initOut = {}
    /\ outFiles = {Path(DirX, <<"a", ".", "webp">>)}

\* both converters have returned
RaceOver == \A p \in Procs : procs[p].pc = "done"

\* C20: with two converters writing into one output directory an output
\* file can be overwritten, and whenever it is, the file was written by the
\* other process after the overwriting process had found its path free: the
\* existence check of _generate_unique_filename was stale at the write.  A
\* process never overwrites a file of its own.
C20_OverwriteByStaleCheck ==
    /\ \A l \in lost :
          /\ l.by # l.of
          /\ l.path \notin l.seen
    /\ \A p \in DOMAIN procs :
          procs[p].pc = "convert" => procs[p].output_file \notin procs[p].seen

\* both processes chose a.webp, process 1 wrote it from a.png and process 2
\* wrote its a.jpg over it: two files converted, one file in the output
C20_Witness ==
    /\ RaceOver
    /\ procs[1].input = {Path(Root, <<"a", ".", "png">>)}
    /\ procs[2].input = {Path(Root, <<"a", ".", "jpg">>)}
    /\ procs[1].stats.converted = 1
    /\ procs[2].stats.converted = 1
    /\ outFiles = {Path(Root, <<"a", ".", "webp">>)}
    /\ content[Path(Root, <<"a", ".", "webp">>)] =
          [by |-> 2, source |-> Path(Root, <<"a", ".", "jpg">>)]
    /\ lost = {[path |-> Path(Root, <<"a", ".", "webp">>), by |-> 2, of |-> 1,
                source |-> Path(Root, <<"a", ".", "png">>), seen |-> {}]}

\* the last call of _generate_unique_filename went past base.webp and
\* base_<ext>.webp into its while loop
NumericTier ==
    /\ lastAlloc.called
    /\ WithSuffix(lastAlloc.base, Ext("webp")) \in lastAlloc.exists
    /\ Path(lastAlloc.base.dir,
            Stem(lastAlloc.base.name) \o <<"_">> \o Tail(lastAlloc.ext) \o Ext("webp"))
          \in lastAlloc.exists

\* the name ends in _<n>.webp
Numbered(f) ==
    /\ Len(f.name) >= 5
    /\ f.name[Len(f.name) - 3] = "_"
    /\ f.name[Len(f.name) - 2] \in {Digits(n) : n \in 1..9}
    /\ Suffix(f.name) = Ext("webp")

\* some stem group of the convertible input files has two members whose
\* original extensions are equal case-insensitively
EqualExtensionInGroup ==
    \E f, g \in Convertible(inFiles) : SameGroup(f, g) /\ SameExtension(f, g)

\* every supported file has been converted
AllConverted == pc = "done" /\ stats.failed = 0 /\ stats.skipped_large = 0

\* C21: in a conversion into an initially empty output directory the
\* allocator reaches the numeric tier for some file if and only if some stem
\* group has two members with the same original extension
\* (case-insensitively), and when no numeric suffix was needed the files
\* written are the names predict_output_filenames predicts
C21_NumericTierNeed ==
    initOut = {} =>
        /\ NumericTier => EqualExtensionInGroup
        /\ AllConverted =>
              /\ EqualExtensionInGroup => \E f \in outFiles : Numbered(f)
              /\ (\A f \in outFiles : ~Numbered(f))
                    => outFiles = PredictOutputFilenames(inFiles, "webp")

\* C22: for every input tree and target format the expected output paths of
\* get_expected_output_files over the convertible images, relative to the
\* output root, are the paths predict_output_filenames returns
C22_PredictionVariantsAgree ==
    (Checked /\ HasPrediction /\ report.format = predicted.format)
    => report.expected_output = predicted.paths

\* the supported extension of a file, in lower case and without dot
FormatOf(f) == Lower(Suffix(f.name))[2]

\* the files of `walked` with a supported extension
CountedAt == {i \in DOMAIN walked : Lower(Suffix(walked[i].name)) \in SUPPORTED_FORMATS}

\* the extensions that share the highest count
Tied ==
    {e \in SupportedNames :
        /\ Occurrences(e) > 0
        /\ \A t \in SupportedNames : Occurrences(t) <= Occurrences(e)}

\* the place of the first file with extension e in the walk
FirstOccurrence(e) ==
    CHOOSE i \in CountedAt :
        /\ FormatOf(walked[i]) = e
        /\ \A j \in CountedAt : FormatOf(walked[j]) = e => i <= j

\* the place in the walk at which extension e reaches the highest count
ReachesMaximum(e) ==
    CHOOSE i \in CountedAt :
        /\ FormatOf(walked[i]) = e
        /\ Cardinality({j \in CountedAt : j > i /\ FormatOf(walked[j]) = e}) = 0

\* the detection has walked an existing output root
Walked == detected # None /\ Root \in outDirs /\ Len(walked) = Cardinality(outFiles)

\* C23: when several supported extensions tie for the highest count in the
\* output root, detect_output_format returns the tied extension that
\* occurred first in the walk of the output root
C23_TieBreakFirstOccurrence ==
    (Walked /\ Cardinality(Tied) > 1) =>
        /\ detected \in Tied
        /\ \A e \in Tied : FirstOccurrence(detected) <= FirstOccurrence(e)

\* png and jpg tie with two files each; png came first, jpg reached two
\* first and jpg is the smaller in the alphabet: png is returned
C23_Witness ==
    /\ Walked
    /\ Tied = {"png", "jpg"}
    /\ Occurrences("png") = 2
    /\ FirstOccurrence("png") < FirstOccurrence("jpg")
    /\ ReachesMaximum("jpg") < ReachesMaximum("png")
    /\ detected = "png"
    /\ chkFormat = "png"
    /\ Checked

\* the .webp files of the input tree, in any letter case
WebpInputs == {f \in inFiles : Lower(Suffix(f.name)) = Ext("webp")}

\* C24: after convert_directory, webp_found and skipped both equal the
\* number of .webp files under the input root, and these files are counted
\* in total_files and in the per-format counts
C24_WebpCountedAsSkipped ==
    pc = "done" =>
        LET n == Cardinality(WebpInputs)
        IN  /\ stats.webp_found = n
            /\ stats.skipped = n
            /\ stats.total_files = Cardinality(Convertible(inFiles)) + n
            /\ n > 0 => /\ Ext("webp") \in DOMAIN stats.format_counts
                        /\ stats.format_counts[Ext("webp")] = n

\* the conversion threads that have not ended
Running == {t \in DOMAIN gui.threads : gui.threads[t].pc # "ended"}

\* thread t ends in this step
Ends(t) ==
    /\ t \in DOMAIN gui.threads
    /\ gui.threads[t].pc # "ended"
    /\ gui'.threads[t].pc = "ended"

\* C25: at most one conversion thread runs at any time: the Convert button
\* is disabled when a thread is started and as long as it runs, no thread is
\* started while the button is disabled, and the button is enabled again
\* only in the step in which the running thread ends, however it ends
C25_SingleWriterGui ==
    [][/\ Cardinality(Running') <= 1
       /\ Running' # {} => gui'.convert_btn = "disabled"
       /\ Len(gui'.threads) > Len(gui.threads) =>
             /\ gui.convert_btn = "normal"
             /\ Running = {}
             /\ gui'.convert_btn = "disabled"
       /\ (gui.convert_btn = "disabled" /\ gui'.convert_btn = "normal") =>
             \E t \in Running : Ends(t) /\ Running' = {}]_vars

\* a second thread runs after the first ended by sys.exit and the button
\* had been enabled again
C25_Witness ==
    /\ Len(gui.threads) = 2
    /\ gui.threads[1].pc = "ended"
    /\ gui.threads[1].raised = "SystemExit"
    /\ gui.threads[2].pc = "try"
    /\ gui.convert_btn = "disabled"

RECURSIVE SumOfCounts(_, _)
\* the sum of format_counts over the formats in `formats`
SumOfCounts(format_counts, formats) ==
    IF formats = {}
    THEN 0
    ELSE LET fmt == CHOOSE x \in formats : TRUE
         IN  format_counts[fmt] + SumOfCounts(format_counts, formats \ {fmt})

\* the files with a supported suffix that the loop has been through
Processed ==
    IF pc = "idle"
    THEN {}
    ELSE {f \in inFiles : /\ Lower(Suffix(f.name)) \in ConverterFormats
                          /\ f.dir \notin pending
                          /\ f \notin todo}

\* C26: after every processed file and at return, total_files is the sum of
\* converted, failed, skipped and skipped_large and the sum of the per-format
\* counts; every supported file gone through is counted once, and after a
\* file whose size cannot be read or whose conversion fails the remaining
\* files are processed, so that at return every supported file is counted
C26_StatisticsAccounting ==
    /\ stats.total_files =
          stats.converted + stats.failed + stats.skipped + stats.skipped_large
    /\ stats.total_files = SumOfCounts(stats.format_counts, DOMAIN stats.format_counts)
    /\ stats.total_files = Cardinality(Processed)
    /\ pc = "done" => Processed = {f \in inFiles : Lower(Suffix(f.name)) \in ConverterFormats}

\* three files of two formats in two directories, one of them failed, the
\* other two converted
C26_Witness ==
    /\ pc = "done"
    /\ stats.total_files = 3
    /\ stats.failed = 1
    /\ stats.converted = 2
    /\ stats.format_counts[Ext("png")] = 2
    /\ stats.format_counts[Ext("jpg")] = 1
    /\ Path(DirX, <<"a", ".", "png">>) \in inFiles

\* C27: with a single writer, over any sequence of convert_directory runs
\* into one output directory, every file is written to a path that did not
\* exist when it was allocated: the files that were there when a run began
\* are all still there, and every file the run has converted is one more
\* file in the output directory
C27_NoOverwriteAcrossRuns ==
    /\ lastAlloc.called =>
          /\ lastAlloc.result \notin lastAlloc.exists
          /\ initOut \subseteq lastAlloc.exists
    /\ initOut \subseteq outFiles
    /\ Cardinality(outFiles \ initOut) = stats.converted

\* a.png converted a third time: a.webp and a_png.webp of the earlier runs
\* are kept and a_png_1.webp is added
C27_Witness ==
    /\ pc = "done"
    /\ inFiles = {Path(Root, <<"a", ".", "png">>)}
    /\ initOut = {Path(Root, <<"a", ".", "webp">>),
                  Path(Root, <<"a", "_", "png", ".", "webp">>)}
    /\ stats.converted = 1
    /\ outFiles = initOut \cup {Path(Root, <<"a", "_", "png", "_", "1", ".", "webp">>)}

\* C28: a checker without a format detects it in its first
\* check_conversion_completeness call and keeps it; every later call, also
\* on another output folder, uses the format kept and detects nothing, and
\* a checker made with a format never detects
C28_StickyFormat ==
    [][/\ chkFormat # None =>
             /\ chkFormat' = chkFormat
             /\ detected' = detected
             /\ walked' = walked
       /\ report' # report =>
             /\ report'.format = chkFormat'
             /\ chkFormat = None => (detected' # None /\ chkFormat' = detected')
       /\ detected' # None => chkFormat' = detected']_vars

\* png was detected in an output folder that held a.png; the folder now
\* holds two .webp files and the last check was made on it, for png
C28_Witness ==
    /\ detected = "png"
    /\ walked = <<Path(Root, <<"a", ".", "png">>)>>
    /\ outFiles = {Path(Root, <<"a", ".", "webp">>),
                   Path(Root, <<"a", "_", "png", ".", "webp">>)}
    /\ chkFormat = "png"
    /\ Checked
    /\ report.format = "png"
    /\ report.output_files = {}
    /\ report.input_images # {}

\* print_report has printed its checklist
Printed == printed.done

\* C29: in the checklist every convertible input image is paired with the
\* expected output the naming rule gives to that file, so it is reported
\* CONVERTED iff that path is among the output files, and when the expected
\* outputs are pairwise distinct as many inputs are reported MISSING or
\* UNKNOWN as missing_output has paths
C29_ChecklistPairing ==
    (Printed /\ Checked) =>
        /\ \A img \in report.input_images :
              LET own == ExpectedOutputPath(img, report.input_images,
                                            OutputExtension(report.format))
              IN  /\ img \in DOMAIN printed.input_to_expected
                  /\ printed.input_to_expected[img] = own
                  /\ img \in printed.converted <=> own \in report.output_files
        /\ Cardinality(report.expected_output) = Cardinality(report.input_images)
              => Cardinality(printed.missing \cup printed.unknown)
                    = Cardinality(report.missing_output)

====
